---------------------------- MODULE Spec2Model ----------------------------
(***************************************************************************)
(* Model of email_deleter.go: the OAuth token acquisition (getClient,      *)
(* getTokenFromWeb, startServer), the sender harvest (getSenderStats,      *)
(* extractEmail), the selection loop (processEmails) and the batch         *)
(* deletion (deleteEmails).                                                *)
(***************************************************************************)
EXTENDS Integers, Sequences, FiniteSets, TLC

\* ------------------------------------------------------------------ bounds
MaxIds == 3          \* longest ID list handed to deleteEmails
MaxPages == 3        \* longest chain of listing pages
MaxPageLen == 2      \* most messages in one listing page
MaxMessages == 3     \* most messages in the whole listing
MaxRequests == 2     \* most /callback requests reaching the listener
MaxLen == 4          \* longest From value handed to extractEmail
MaxSenders == 2      \* most sender records handed to processEmails
MaxCount == 2        \* most message IDs of one such record
MaxPrompts == 3      \* most prompts answered in one run of processEmails

\* ------------------------------------------------------- program constants
ProgressEvery == 10  \* successCount%10 == 0
SleepMillis == 100   \* time.Sleep(100 * time.Millisecond)

MsgIds == {"m1", "m2"}

VARIABLES
    \* deleteEmails
    ids, dIdx, dpc, successCount, deleteErrors, dTrace, progress, dResult,
    \* getSenderStats
    pages, metadata, hpc, pageToken, r, msgIdx, senderMap, stats, hErr,
    listLog, fetchLog,
    \* getClient / getTokenFromWeb / startServer
    tokFile, mainpc, authCode, authErr, wg, wgWaiters, listener, handlers,
    tok, retErr, client, listenerBinds, authURLs, exchangeCalls,
    fileWrites, panics, lateWrites, logLines,
    \* a second run of getSenderStats
    prevStats, runs,
    \* extractEmail
    eFrom, eOut, epc,
    \* processEmails
    senderStats, ppc, pi, response, offered, deleteCalls

dvars == <<ids, dIdx, dpc, successCount, deleteErrors, dTrace, progress, dResult>>
hvars == <<pages, metadata, hpc, pageToken, r, msgIdx, senderMap, stats, hErr,
           listLog, fetchLog>>
avars == <<tokFile, mainpc, authCode, authErr, wg, wgWaiters, listener, handlers,
           tok, retErr, client, listenerBinds, authURLs, exchangeCalls,
           fileWrites, panics, lateWrites>>
lvars == <<logLines>>
rvars == <<prevStats, runs>>
evars == <<eFrom, eOut, epc>>
pvars == <<senderStats, ppc, pi, response, offered, deleteCalls>>
vars == <<dvars, hvars, avars, lvars, rvars, evars, pvars>>

\* Sequences over S of length at most n
RECURSIVE SeqUpTo(_, _)
SeqUpTo(S, n) ==
    IF n = 0 THEN {<<>>}
    ELSE LET shorter == SeqUpTo(S, n - 1)
         IN  shorter \cup {Append(s, x) : s \in {t \in shorter : Len(t) = n - 1}, x \in S}

\* Number of positions of sequence s satisfying P
CountIf(s, P(_)) == Cardinality({i \in 1..Len(s) : P(s[i])})

\* No element occurs twice in sequence s
Distinct(s) == \A i, j \in 1..Len(s) : i # j => s[i] # s[j]

\* Concatenation of a sequence of sequences
RECURSIVE Flatten(_)
Flatten(ss) == IF ss = <<>> THEN <<>> ELSE Head(ss) \o Flatten(Tail(ss))

\* =========================================================================
\* deleteEmails (email_deleter.go:309-360)
\* =========================================================================

\* What Users.Messages.Trash(...).Do() can return: an error, or the message
\* with its current label set.
Labels == {"TRASH", "INBOX"}
TrashResponses ==
    {[err |-> TRUE, LabelIds |-> {}]} \cup
    {[err |-> FALSE, LabelIds |-> L] : L \in SUBSET Labels}

\* bug variant: any successful call counts as trashed
IsInTrashAlways(LabelIds) == TRUE

\* for _, label := range email.LabelIds { if label == "TRASH" ... }
IsInTrash(LabelIds) == "TRASH" \in LabelIds

TrashEvent(id, resp) == [ev |-> "trash", id |-> id, resp |-> resp, ms |-> 0]
SleepEvent ==
    [ev |-> "sleep", id |-> "", resp |-> [err |-> FALSE, LabelIds |-> {}], ms |-> SleepMillis]

\* bug variant: a remote error ends the batch
TrashAbortOnError ==
    /\ dpc = "loop"
    /\ dIdx <= Len(ids)
    /\ \E resp \in TrashResponses :
         LET id == ids[dIdx] IN
         /\ dTrace' = Append(dTrace, TrashEvent(id, resp))
         /\ IF resp.err
            THEN /\ deleteErrors' = Append(deleteErrors, [id |-> id, reason |-> "failed to delete"])
                 /\ dIdx' = Len(ids) + 1
                 /\ UNCHANGED <<dpc, successCount, progress>>
            ELSE /\ dpc' = "sleep"
                 /\ IF ~IsInTrash(resp.LabelIds)
                    THEN /\ deleteErrors' = Append(deleteErrors, [id |-> id, reason |-> "not moved to trash"])
                         /\ UNCHANGED <<successCount, progress>>
                    ELSE /\ successCount' = successCount + 1
                         /\ progress' = IF (successCount + 1) % ProgressEvery = 0
                                        THEN progress + 1 ELSE progress
                         /\ UNCHANGED deleteErrors
                 /\ UNCHANGED dIdx
    /\ UNCHANGED <<ids, dResult>>
    /\ UNCHANGED <<hvars, avars, lvars, rvars, evars>>
    /\ UNCHANGED pvars

\* One loop iteration up to the sleep (lines 314-340): the Trash call, the
\* error branch with its `continue`, the label check and the counters.
Trash ==
    /\ dpc = "loop"
    /\ dIdx <= Len(ids)
    /\ \E resp \in TrashResponses :
         LET id == ids[dIdx] IN
         /\ dTrace' = Append(dTrace, TrashEvent(id, resp))
         /\ IF resp.err
            THEN \* line 318-321: record the failure and `continue`
                 /\ deleteErrors' = Append(deleteErrors, [id |-> id, reason |-> "failed to delete"])
                 /\ dIdx' = dIdx + 1
                 /\ UNCHANGED <<dpc, successCount, progress>>
            ELSE /\ dpc' = "sleep"
                 /\ IF ~IsInTrash(resp.LabelIds)
                    THEN /\ deleteErrors' = Append(deleteErrors, [id |-> id, reason |-> "not moved to trash"])
                         /\ UNCHANGED <<successCount, progress>>
                    ELSE /\ successCount' = successCount + 1
                         /\ progress' = IF (successCount + 1) % ProgressEvery = 0
                                        THEN progress + 1 ELSE progress
                         /\ UNCHANGED deleteErrors
                 /\ UNCHANGED dIdx
    /\ UNCHANGED <<ids, dResult>>
    /\ UNCHANGED <<hvars, avars, lvars, rvars, evars>>
    /\ UNCHANGED pvars

\* line 343: time.Sleep, then the next iteration
Sleep ==
    /\ dpc = "sleep"
    /\ dTrace' = Append(dTrace, SleepEvent)
    /\ dIdx' = dIdx + 1
    /\ dpc' = "loop"
    /\ UNCHANGED <<ids, successCount, deleteErrors, progress, dResult>>
    /\ UNCHANGED <<hvars, avars, lvars, rvars, evars>>
    /\ UNCHANGED pvars

\* lines 346-359: the summary and the returned error
DeleteReturn ==
    /\ dpc = "loop"
    /\ dIdx > Len(ids)
    /\ dpc' = "done"
    /\ dResult' = IF Len(deleteErrors) > 0 THEN "error" ELSE "nil"
    /\ UNCHANGED <<ids, dIdx, successCount, deleteErrors, dTrace, progress>>
    /\ UNCHANGED <<hvars, avars, lvars, rvars, evars>>
    /\ UNCHANGED pvars

NextDelete == Trash \/ Sleep \/ DeleteReturn

\* =========================================================================
\* extractEmail (email_deleter.go:297-306); strings are tuples of characters
\* =========================================================================

\* strings.LastIndex(s, c) for a one-character c: 0-based index, -1 if absent
LastIndex(s, c) ==
    LET hits == {i \in 1..Len(s) : s[i] = c}
    IN  IF hits = {} THEN -1
        ELSE (CHOOSE i \in hits : \A j \in hits : j <= i) - 1

extractEmail(from) ==
    LET start == LastIndex(from, "<")
        end   == LastIndex(from, ">")
    IN  IF start >= 0 /\ end > start
        THEN SubSeq(from, start + 2, end)     \* from[start+1 : end]
        ELSE from

\* =========================================================================
\* getSenderStats (email_deleter.go:228-287)
\* =========================================================================

Hdr(n, v) == [Name |-> n, Value |-> v]

\* What Users.Messages.Get(...).Format("metadata").Do() can return
MetadataResults ==
    { [err |-> TRUE,  Headers |-> <<>>],
      [err |-> FALSE, Headers |-> <<Hdr("To", <<"b">>)>>],
      [err |-> FALSE, Headers |-> <<Hdr("From", <<"n", "<", "a", ">">>)>>],
      [err |-> FALSE, Headers |-> <<Hdr("To", <<"a">>), Hdr("From", <<"b">>)>>],
      [err |-> FALSE, Headers |-> <<Hdr("From", <<"a">>), Hdr("From", <<"b">>)>>] }

EmptyPage == [Messages |-> <<>>, NextPageToken |-> 0]

\* The remote listing: page i carries the token of page i+1, the last page
\* none (0 stands for the empty token).
NextPageTokenOf(i) == IF i < Len(pages) THEN i + 1 ELSE 0
PageFor(token) == IF token = 0 THEN 1 ELSE token
ListResponse(token) ==
    [Messages |-> pages[PageFor(token)], NextPageToken |-> NextPageTokenOf(PageFor(token))]

\* bug variant: an existing sender gets the ID appended but Count is not
\* incremented
AddToSenderNoCount(map, email, id) ==
    IF email \in DOMAIN map
    THEN [map EXCEPT ![email].Ids = Append(@, id)]
    ELSE [e \in DOMAIN map \cup {email} |->
            IF e = email THEN [Email |-> email, Count |-> 1, Ids |-> <<id>>]
            ELSE map[e]]

\* bug variant: the ID is put in front of the sender's list
AddToSenderPrepend(map, email, id) ==
    IF email \in DOMAIN map
    THEN [map EXCEPT ![email].Count = @ + 1, ![email].Ids = <<id>> \o @]
    ELSE [e \in DOMAIN map \cup {email} |->
            IF e = email THEN [Email |-> email, Count |-> 1, Ids |-> <<id>>]
            ELSE map[e]]

\* lines 258-267: insert or update the sender's record
AddToSender(map, email, id) ==
    IF email \in DOMAIN map
    THEN [map EXCEPT ![email].Count = @ + 1, ![email].Ids = Append(@, id)]
    ELSE [e \in DOMAIN map \cup {email} |->
            IF e = email THEN [Email |-> email, Count |-> 1, Ids |-> <<id>>]
            ELSE map[e]]

\* bug variant: no `break`, every From header is counted
RECURSIVE ApplyHeadersNoBreak(_, _, _)
ApplyHeadersNoBreak(map, headers, id) ==
    IF headers = <<>> THEN map
    ELSE IF Head(headers).Name = "From"
         THEN ApplyHeadersNoBreak(AddToSender(map, extractEmail(Head(headers).Value), id),
                                  Tail(headers), id)
         ELSE ApplyHeadersNoBreak(map, Tail(headers), id)

\* lines 255-270: the first header named "From" decides the sender
RECURSIVE ApplyHeaders(_, _, _)
ApplyHeaders(map, headers, id) ==
    IF headers = <<>> THEN map
    ELSE IF Head(headers).Name = "From"
         THEN AddToSender(map, extractEmail(Head(headers).Value), id)
         ELSE ApplyHeaders(map, Tail(headers), id)

HasFrom(headers) == \E i \in 1..Len(headers) : headers[i].Name = "From"

\* lines 234-243: one listing request; an error ends the harvest with
\* (nil, err)
ListPage ==
    /\ hpc = "list"
    /\ \E ok \in BOOLEAN :
         /\ listLog' = Append(listLog, [token |-> pageToken, ok |-> ok])
         /\ IF ok
            THEN /\ r' = ListResponse(pageToken)
                 /\ msgIdx' = 1
                 /\ hpc' = "msgs"
                 /\ UNCHANGED <<stats, hErr>>
            ELSE /\ stats' = <<>>
                 /\ hErr' = TRUE
                 /\ hpc' = "done"
                 /\ UNCHANGED <<r, msgIdx>>
    /\ UNCHANGED <<pages, metadata, pageToken, senderMap, fetchLog>>
    /\ UNCHANGED <<dvars, avars, lvars, evars, pvars>>
    /\ UNCHANGED rvars

\* bug variant: a failed metadata fetch ends the harvest with an error
GetMetadataAbort ==
    /\ hpc = "msgs"
    /\ msgIdx <= Len(r.Messages)
    /\ LET id == r.Messages[msgIdx]
           message == metadata[id]
       IN  /\ fetchLog' = Append(fetchLog, [id |-> id, ok |-> ~message.err])
           /\ IF message.err
              THEN /\ stats' = <<>>
                   /\ hErr' = TRUE
                   /\ hpc' = "done"
                   /\ UNCHANGED <<senderMap, msgIdx>>
              ELSE /\ senderMap' = ApplyHeaders(senderMap, message.Headers, id)
                   /\ msgIdx' = msgIdx + 1
                   /\ UNCHANGED <<stats, hErr, hpc>>
    /\ UNCHANGED <<pages, metadata, pageToken, r, listLog>>
    /\ UNCHANGED <<dvars, avars, lvars, evars, pvars>>
    /\ UNCHANGED rvars

\* lines 246-271: one message of the page: fetch its metadata, skip it on an
\* error, otherwise count it under its first From header
GetMetadata ==
    /\ hpc = "msgs"
    /\ msgIdx <= Len(r.Messages)
    /\ LET id == r.Messages[msgIdx]
           message == metadata[id]
       IN  /\ fetchLog' = Append(fetchLog, [id |-> id, ok |-> ~message.err])
           /\ senderMap' = IF message.err THEN senderMap
                           ELSE ApplyHeaders(senderMap, message.Headers, id)
    /\ msgIdx' = msgIdx + 1
    /\ UNCHANGED <<pages, metadata, hpc, pageToken, r, stats, hErr, listLog>>
    /\ UNCHANGED <<dvars, avars, lvars, evars, pvars>>
    /\ UNCHANGED rvars

\* bug variant: the loop stops at a page without messages instead of at a
\* page without continuation token
PageEndOnEmpty ==
    /\ hpc = "msgs"
    /\ msgIdx > Len(r.Messages)
    /\ IF r.NextPageToken = 0 \/ r.Messages = <<>>
       THEN hpc' = "collect" /\ UNCHANGED pageToken
       ELSE hpc' = "list" /\ pageToken' = r.NextPageToken
    /\ UNCHANGED <<pages, metadata, r, msgIdx, senderMap, stats, hErr, listLog, fetchLog>>
    /\ UNCHANGED <<dvars, avars, lvars, evars, pvars>>
    /\ UNCHANGED rvars

\* lines 273-277: leave the loop when the response has no continuation
\* token, otherwise ask for the next page
PageEnd ==
    /\ hpc = "msgs"
    /\ msgIdx > Len(r.Messages)
    /\ IF r.NextPageToken = 0
       THEN hpc' = "collect" /\ UNCHANGED pageToken
       ELSE hpc' = "list" /\ pageToken' = r.NextPageToken
    /\ UNCHANGED <<pages, metadata, r, msgIdx, senderMap, stats, hErr, listLog, fetchLog>>
    /\ UNCHANGED <<dvars, avars, lvars, evars, pvars>>
    /\ UNCHANGED rvars

\* The orders in which `range senderMap` can visit the map
Orderings(S) == {s \in SeqUpTo(S, Cardinality(S)) :
                    Len(s) = Cardinality(S) /\ \A i, j \in 1..Len(s) : i # j => s[i] # s[j]}

\* lines 280-286: the records of the map as a slice, in map iteration order
Collect ==
    /\ hpc = "collect"
    /\ \E order \in Orderings(DOMAIN senderMap) :
         stats' = [i \in 1..Len(order) |-> senderMap[order[i]]]
    /\ hpc' = "done"
    /\ UNCHANGED <<pages, metadata, pageToken, r, msgIdx, senderMap, hErr, listLog, fetchLog>>
    /\ UNCHANGED <<dvars, avars, lvars, evars, pvars>>
    /\ UNCHANGED rvars

NextHarvest == ListPage \/ GetMetadata \/ PageEnd \/ Collect

\* =========================================================================
\* getClient, getTokenFromWeb, startServer, tokenFromFile, saveToken
\* (email_deleter.go:29-33, 88-187)
\* =========================================================================

\* What token.json can hold when getClient runs: no file, bytes that are not
\* JSON, a token that is still valid, an expired token whose refresh token
\* works, or well-formed JSON whose token cannot authenticate (empty object,
\* expired without a working refresh token).  "fresh" is the token that
\* saveToken writes after an exchange.
CacheContents == {"missing", "malformed", "valid", "expired", "unusable"}

\* The code parameter of a /callback request; "" is a request without code
CallbackCodes == {"", "c1", "c2"}

NilTok == [kind |-> "nil", code |-> ""]
NoClient == [made |-> FALSE, tok |-> NilTok]

\* lines 169-177: an error iff the file cannot be read or is not JSON
tokenFromFile(file) ==
    IF file \in {"missing", "malformed"}
    THEN [tok |-> NilTok, err |-> TRUE]
    ELSE [tok |-> [kind |-> file, code |-> ""], err |-> FALSE]

\* The waiter of wg.Wait() has been let through
Released ==
    \/ mainpc \in {"checkErr", "exchange", "shutdown", "shutdownWait", "returned", "done"}
    \/ mainpc = "blocked" /\ wgWaiters = 0

\* bug variant: the web flow is run even when the cache could be read
GetClientAlwaysWeb ==
    /\ mainpc = "getClient"
    /\ tok' = tokenFromFile(tokFile).tok
    /\ mainpc' = "startServer"
    /\ UNCHANGED <<tokFile, authCode, authErr, wg, wgWaiters, listener, handlers,
                   retErr, client, listenerBinds, authURLs, exchangeCalls,
                   fileWrites, panics, lateWrites>>
    /\ UNCHANGED <<dvars, hvars, rvars, evars, pvars>>
    /\ UNCHANGED logLines

\* lines 122-126 and 134: read the cache; without an error the client is
\* built from the cached token, otherwise the web flow starts
GetClient ==
    /\ mainpc = "getClient"
    /\ LET res == tokenFromFile(tokFile) IN
         /\ tok' = res.tok
         /\ IF res.err
            THEN mainpc' = "startServer" /\ UNCHANGED client
            ELSE mainpc' = "done" /\ client' = [made |-> TRUE, tok |-> res.tok]
    /\ UNCHANGED <<tokFile, authCode, authErr, wg, wgWaiters, listener, handlers,
                   retErr, listenerBinds, authURLs, exchangeCalls,
                   fileWrites, panics, lateWrites>>
    /\ UNCHANGED <<dvars, hvars, rvars, evars, pvars>>
    /\ UNCHANGED logLines

\* lines 140-141 (and 88-116): wg.Add(1), then startServer registers the
\* handler and launches the goroutine that will listen
StartServer ==
    /\ mainpc = "startServer"
    /\ wg' = wg + 1
    /\ listener' = "starting"
    /\ mainpc' = "printURL"
    /\ UNCHANGED <<tokFile, authCode, authErr, wgWaiters, handlers, tok, retErr,
                   client, listenerBinds, authURLs, exchangeCalls, fileWrites,
                   panics, lateWrites>>
    /\ UNCHANGED <<dvars, hvars, rvars, evars, pvars>>
    /\ UNCHANGED logLines

\* lines 110-114: the goroutine's ListenAndServe binds :8080, or fails to
\* (the error is only logged)
ListenAndServe ==
    /\ listener = "starting"
    /\ listenerBinds' = listenerBinds + 1
    /\ \E bound \in BOOLEAN :
         /\ listener' = IF bound THEN "up" ELSE "failed"
         /\ logLines' = IF bound THEN logLines ELSE logLines \cup {"HTTP server error"}
    /\ UNCHANGED <<tokFile, mainpc, authCode, authErr, wg, wgWaiters, handlers,
                   tok, retErr, client, authURLs, exchangeCalls, fileWrites,
                   panics, lateWrites>>
    /\ UNCHANGED <<dvars, hvars, rvars, evars, pvars>>

\* lines 149-150: build and print the authorization URL
PrintAuthURL ==
    /\ mainpc = "printURL"
    /\ authURLs' = authURLs + 1
    /\ mainpc' = "wait"
    /\ UNCHANGED <<tokFile, authCode, authErr, wg, wgWaiters, listener, handlers,
                   tok, retErr, client, listenerBinds, exchangeCalls, fileWrites,
                   panics, lateWrites>>
    /\ UNCHANGED <<dvars, hvars, rvars, evars, pvars>>
    /\ UNCHANGED logLines

\* line 153: wg.Wait() returns at once when the counter is zero, otherwise
\* the caller registers as waiter and sleeps
WaitEnter ==
    /\ mainpc = "wait"
    /\ IF wg = 0
       THEN mainpc' = "checkErr" /\ UNCHANGED wgWaiters
       ELSE mainpc' = "blocked" /\ wgWaiters' = wgWaiters + 1
    /\ UNCHANGED <<tokFile, authCode, authErr, wg, listener, handlers, tok, retErr,
                   client, listenerBinds, authURLs, exchangeCalls, fileWrites,
                   panics, lateWrites>>
    /\ UNCHANGED <<dvars, hvars, rvars, evars, pvars>>
    /\ UNCHANGED logLines

\* line 153: the sleeping waiter is woken by the Done that reached zero
WaitReturn ==
    /\ mainpc = "blocked"
    /\ wgWaiters = 0
    /\ mainpc' = "checkErr"
    /\ UNCHANGED <<tokFile, authCode, authErr, wg, wgWaiters, listener, handlers,
                   tok, retErr, client, listenerBinds, authURLs, exchangeCalls,
                   fileWrites, panics, lateWrites>>
    /\ UNCHANGED <<dvars, hvars, rvars, evars, pvars>>
    /\ UNCHANGED logLines

\* A GET /callback request reaches the listener; net/http runs the handler
\* in a goroutine of its own
CallbackArrive ==
    /\ listener = "up"
    /\ Len(handlers) < MaxRequests
    /\ \E code \in CallbackCodes :
         handlers' = Append(handlers, [code |-> code, pc |-> "start", status |-> 0])
    /\ UNCHANGED <<tokFile, mainpc, authCode, authErr, wg, wgWaiters, listener,
                   tok, retErr, client, listenerBinds, authURLs, exchangeCalls,
                   fileWrites, panics, lateWrites>>
    /\ UNCHANGED <<dvars, hvars, rvars, evars, pvars>>
    /\ UNCHANGED logLines

\* lines 95-98 and 104-105: the handler stores the error or the code in the
\* globals and writes its response
HandlerWrite ==
    /\ \E i \in 1..Len(handlers) :
         /\ handlers[i].pc = "start"
         /\ IF handlers[i].code = ""
            THEN /\ authErr' = "no code in callback"
                 /\ handlers' = [handlers EXCEPT ![i].pc = "wrote", ![i].status = 400]
                 /\ UNCHANGED authCode
            ELSE /\ authCode' = handlers[i].code
                 /\ handlers' = [handlers EXCEPT ![i].pc = "wrote", ![i].status = 200]
                 /\ UNCHANGED authErr
    /\ lateWrites' = IF Released THEN lateWrites + 1 ELSE lateWrites
    /\ UNCHANGED <<tokFile, mainpc, wg, wgWaiters, listener, tok, retErr, client,
                   listenerBinds, authURLs, exchangeCalls, fileWrites, panics>>
    /\ UNCHANGED <<dvars, hvars, rvars, evars, pvars>>
    /\ UNCHANGED logLines

\* lines 99 and 106: wg.Done().  WaitGroup.Add(-1) applies the delta, panics
\* on a negative counter (net/http recovers the handler's panic) and wakes
\* the waiter when the counter reaches zero.
HandlerDone ==
    /\ \E i \in 1..Len(handlers) :
         /\ handlers[i].pc = "wrote"
         /\ handlers' = [handlers EXCEPT ![i].pc = "done"]
    /\ wg' = wg - 1
    /\ panics' = IF wg - 1 < 0 THEN panics + 1 ELSE panics
    /\ wgWaiters' = IF wg - 1 = 0 THEN 0 ELSE wgWaiters
    /\ UNCHANGED <<tokFile, mainpc, authCode, authErr, listener, tok, retErr,
                   client, listenerBinds, authURLs, exchangeCalls, fileWrites,
                   lateWrites>>
    /\ UNCHANGED <<dvars, hvars, rvars, evars, pvars>>
    /\ UNCHANGED logLines

\* bug variant: the error return leaves without running the shutdown
CheckAuthErrNoShutdown ==
    /\ mainpc = "checkErr"
    /\ IF authErr # "nil"
       THEN /\ retErr' = authErr
            /\ mainpc' = "returned"
       ELSE /\ mainpc' = "exchange"
            /\ UNCHANGED retErr
    /\ UNCHANGED <<tokFile, authCode, authErr, wg, wgWaiters, listener, handlers,
                   tok, client, listenerBinds, authURLs, exchangeCalls, fileWrites,
                   panics, lateWrites>>
    /\ UNCHANGED <<dvars, hvars, rvars, evars, pvars>>
    /\ logLines' = IF authErr # "nil"
                   THEN logLines \cup {"Error getting authorisation code"}
                   ELSE logLines

\* lines 155-158: a recorded callback error is returned (the deferred
\* shutdown runs before the function returns)
CheckAuthErr ==
    /\ mainpc = "checkErr"
    /\ IF authErr # "nil"
       THEN /\ retErr' = authErr
            /\ mainpc' = "shutdown"
       ELSE /\ mainpc' = "exchange"
            /\ UNCHANGED retErr
    /\ UNCHANGED <<tokFile, authCode, authErr, wg, wgWaiters, listener, handlers,
                   tok, client, listenerBinds, authURLs, exchangeCalls, fileWrites,
                   panics, lateWrites>>
    /\ UNCHANGED <<dvars, hvars, rvars, evars, pvars>>
    /\ logLines' = IF authErr # "nil"
                   THEN logLines \cup {"Error getting authorisation code"}
                   ELSE logLines

\* lines 161-165: exchange authCode for a token
Exchange ==
    /\ mainpc = "exchange"
    /\ exchangeCalls' = exchangeCalls + 1
    /\ \E ok \in BOOLEAN :
         IF ok
         THEN tok' = [kind |-> "fresh", code |-> authCode] /\ UNCHANGED retErr
         ELSE tok' = NilTok /\ retErr' = "exchange failed"
    /\ mainpc' = "shutdown"
    /\ UNCHANGED <<tokFile, authCode, authErr, wg, wgWaiters, listener, handlers,
                   client, listenerBinds, authURLs, fileWrites, panics, lateWrites>>
    /\ UNCHANGED <<dvars, hvars, rvars, evars, pvars>>
    /\ UNCHANGED logLines

\* lines 142-146: the deferred srv.Shutdown closes the listener ...
Shutdown ==
    /\ mainpc = "shutdown"
    /\ listener' = "closed"
    /\ mainpc' = "shutdownWait"
    /\ UNCHANGED <<tokFile, authCode, authErr, wg, wgWaiters, handlers, tok, retErr,
                   client, listenerBinds, authURLs, exchangeCalls, fileWrites,
                   panics, lateWrites>>
    /\ UNCHANGED <<dvars, hvars, rvars, evars, pvars>>
    /\ UNCHANGED logLines

\* ... and returns once no handler is running any more; getTokenFromWeb
\* then returns to getClient
ShutdownReturn ==
    /\ mainpc = "shutdownWait"
    /\ \A i \in 1..Len(handlers) : handlers[i].pc = "done"
    /\ mainpc' = "returned"
    /\ UNCHANGED <<tokFile, authCode, authErr, wg, wgWaiters, listener, handlers,
                   tok, retErr, client, listenerBinds, authURLs, exchangeCalls,
                   fileWrites, panics, lateWrites>>
    /\ UNCHANGED <<dvars, hvars, rvars, evars, pvars>>
    /\ UNCHANGED logLines

\* bug variant: the token is saved before the error is looked at
SaveAndReturnAlways ==
    /\ mainpc = "returned"
    /\ \E written \in BOOLEAN :
         /\ tokFile' = IF written THEN "fresh" ELSE tokFile
         /\ fileWrites' = IF written THEN fileWrites + 1 ELSE fileWrites
    /\ client' = IF retErr # "nil" THEN client ELSE [made |-> TRUE, tok |-> tok]
    /\ mainpc' = "done"
    /\ UNCHANGED <<authCode, authErr, wg, wgWaiters, listener, handlers, tok, retErr,
                   listenerBinds, authURLs, exchangeCalls, panics, lateWrites>>
    /\ UNCHANGED <<dvars, hvars, rvars, evars, pvars>>
    /\ UNCHANGED logLines

\* lines 128-134 and 180-187: on an error getClient returns (nil, err);
\* otherwise saveToken writes token.json (a failed write is ignored) and the
\* client is built from the new token
SaveAndReturn ==
    /\ mainpc = "returned"
    /\ IF retErr # "nil"
       THEN UNCHANGED <<tokFile, fileWrites, client>>
       ELSE /\ \E written \in BOOLEAN :
                 /\ tokFile' = IF written THEN "fresh" ELSE tokFile
                 /\ fileWrites' = IF written THEN fileWrites + 1 ELSE fileWrites
            /\ client' = [made |-> TRUE, tok |-> tok]
    /\ mainpc' = "done"
    /\ UNCHANGED <<authCode, authErr, wg, wgWaiters, listener, handlers, tok, retErr,
                   listenerBinds, authURLs, exchangeCalls, panics, lateWrites>>
    /\ UNCHANGED <<dvars, hvars, rvars, evars, pvars>>
    /\ UNCHANGED logLines

NextAuth ==
    \/ GetClient \/ StartServer \/ ListenAndServe \/ PrintAuthURL
    \/ WaitEnter \/ WaitReturn \/ CallbackArrive \/ HandlerWrite \/ HandlerDone
    \/ CheckAuthErr \/ Exchange \/ Shutdown \/ ShutdownReturn \/ SaveAndReturn

\* =========================================================================
\* A second run of the program over the same message store
\* =========================================================================

\* getSenderStats is entered again (lines 228-232): a new empty senderMap
\* and an empty pageToken; the result of the first run is kept for
\* comparison
Rerun ==
    /\ hpc = "done"
    /\ ~hErr
    /\ runs = 1
    /\ prevStats' = stats
    /\ runs' = 2
    /\ hpc' = "list"
    /\ pageToken' = 0
    /\ r' = EmptyPage
    /\ msgIdx' = 1
    /\ senderMap' = <<>>
    /\ stats' = <<>>
    /\ listLog' = <<>>
    /\ fetchLog' = <<>>
    /\ UNCHANGED <<pages, metadata, hErr>>
    /\ UNCHANGED <<dvars, avars, lvars, evars, pvars>>

NextRerun == ListPage \/ GetMetadata \/ PageEnd \/ Collect \/ Rerun

\* =========================================================================
\* extractEmail applied to one From value
\* =========================================================================
Chars == {"a", "<", ">"}

\* line 257: email := extractEmail(header.Value)
ExtractEmail ==
    /\ epc = "call"
    /\ eOut' = extractEmail(eFrom)
    /\ epc' = "done"
    /\ UNCHANGED eFrom
    /\ UNCHANGED <<dvars, hvars, avars, lvars, rvars, pvars>>

NextExtract == ExtractEmail

\* =========================================================================
\* processEmails (email_deleter.go:192-226)
\* =========================================================================

\* strings.ToLower on the letters that occur in the responses
LowerChar(c) ==
    CASE c = "Y" -> "y"
      [] c = "E" -> "e"
      [] c = "S" -> "s"
      [] c = "N" -> "n"
      [] c = "O" -> "o"
      [] c = "Q" -> "q"
      [] OTHER -> c

ToLower(str) == [i \in 1..Len(str) |-> LowerChar(str[i])]

\* What fmt.Scanln can read from the terminal
Responses ==
    { <<"y", "e", "s">>, <<"Y", "E", "s">>, <<"n", "o">>,
      <<"Q", "u", "i", "t">>, <<"y">> }

\* The records getSenderStats can return: an ID list per sender, Count its
\* length, no sender twice, no message under two senders
SenderRecords ==
    {[Email |-> e, Count |-> Len(l), Ids |-> l] :
        e \in {<<"a">>, <<"b">>}, l \in (SeqUpTo(MsgIds, MaxCount) \ {<<>>})}

IdSet(rec) == {rec.Ids[i] : i \in 1..Len(rec.Ids)}

HarvestResults ==
    {st \in SeqUpTo(SenderRecords, MaxSenders) :
        \A i, j \in 1..Len(st) :
            i # j => (st[i].Email # st[j].Email /\ IdSet(st[i]) \cap IdSet(st[j]) = {})}

\* bug variant: the slice is left in the order it came in
SortSliceNone(st) == {st}

\* lines 194-196: sort.Slice by descending Count; the sort is not stable, so
\* records with equal Count can end in any order
SortSlice(st) ==
    {t \in Orderings({st[i] : i \in 1..Len(st)}) :
        \A i, j \in 1..Len(t) : i < j => t[i].Count >= t[j].Count}

SortSenders ==
    /\ ppc = "sort"
    /\ senderStats' \in SortSlice(senderStats)
    /\ pi' = 1
    /\ ppc' = "loop"
    /\ UNCHANGED <<response, offered, deleteCalls>>
    /\ UNCHANGED <<dvars, hvars, avars, lvars, rvars, evars>>

\* bug variant: an unrecognised response also deletes
PromptDeleteOnOther ==
    /\ ppc = "loop"
    /\ pi <= Len(senderStats)
    /\ Len(offered) < MaxPrompts
    /\ LET sender == senderStats[pi] IN
       /\ offered' = Append(offered, sender)
       /\ \E resp \in Responses :
            /\ response' = resp
            /\ IF ToLower(resp) \notin {<<"n", "o">>, <<"q", "u", "i", "t">>}
               THEN /\ deleteCalls' = Append(deleteCalls, [Email |-> sender.Email, Ids |-> sender.Ids])
                    /\ ids' = sender.Ids
                    /\ dIdx' = 1
                    /\ dpc' = "loop"
                    /\ successCount' = 0
                    /\ deleteErrors' = <<>>
                    /\ dTrace' = <<>>
                    /\ dResult' = "none"
                    /\ ppc' = "deleting"
                    /\ UNCHANGED <<pi, progress>>
               ELSE IF ToLower(resp) = <<"n", "o">>
               THEN /\ pi' = pi + 1
                    /\ UNCHANGED <<ppc, deleteCalls, dvars>>
               ELSE /\ ppc' = "done"
                    /\ UNCHANGED <<pi, deleteCalls, dvars>>
    /\ UNCHANGED senderStats
    /\ UNCHANGED <<hvars, avars, lvars, rvars, evars>>

\* lines 200-224: one pass of the loop body: show the sender, read the
\* response and branch on its lower-case form; "yes" enters deleteEmails
\* with the sender's Ids
Prompt ==
    /\ ppc = "loop"
    /\ pi <= Len(senderStats)
    /\ Len(offered) < MaxPrompts
    /\ LET sender == senderStats[pi] IN
       /\ offered' = Append(offered, sender)
       /\ \E resp \in Responses :
            /\ response' = resp
            /\ IF ToLower(resp) = <<"y", "e", "s">>
               THEN /\ deleteCalls' = Append(deleteCalls, [Email |-> sender.Email, Ids |-> sender.Ids])
                    /\ ids' = sender.Ids
                    /\ dIdx' = 1
                    /\ dpc' = "loop"
                    /\ successCount' = 0
                    /\ deleteErrors' = <<>>
                    /\ dTrace' = <<>>
                    /\ dResult' = "none"
                    /\ ppc' = "deleting"
                    /\ UNCHANGED <<pi, progress>>
               ELSE IF ToLower(resp) = <<"n", "o">>
               THEN /\ pi' = pi + 1
                    /\ UNCHANGED <<ppc, deleteCalls, dvars>>
               ELSE IF ToLower(resp) = <<"q", "u", "i", "t">>
               THEN /\ ppc' = "done"
                    /\ UNCHANGED <<pi, deleteCalls, dvars>>
               ELSE \* i-- and the loop's i++: the same sender again
                    UNCHANGED <<pi, ppc, deleteCalls, dvars>>
    /\ UNCHANGED senderStats
    /\ UNCHANGED <<hvars, avars, lvars, rvars, evars>>

\* lines 210-215: deleteEmails has returned; report and go to the next
\* sender
AfterDelete ==
    /\ ppc = "deleting"
    /\ dpc = "done"
    /\ pi' = pi + 1
    /\ ppc' = "loop"
    /\ UNCHANGED <<senderStats, response, offered, deleteCalls>>
    /\ UNCHANGED <<dvars, hvars, avars, lvars, rvars, evars>>

\* line 200: the loop condition fails
LoopEnd ==
    /\ ppc = "loop"
    /\ pi > Len(senderStats)
    /\ ppc' = "done"
    /\ UNCHANGED <<senderStats, pi, response, offered, deleteCalls>>
    /\ UNCHANGED <<dvars, hvars, avars, lvars, rvars, evars>>

NextProcess ==
    \/ SortSenders \/ Prompt \/ AfterDelete \/ LoopEnd
    \/ Trash \/ Sleep \/ DeleteReturn

\* =========================================================================
\* Specifications
\* =========================================================================
\* deleteEmails called on an ID list; the other components are not running
InitDelete ==
    /\ ids \in SeqUpTo(MsgIds, MaxIds)
    /\ dIdx = 1
    /\ dpc = "loop"
    /\ successCount = 0
    /\ deleteErrors = <<>>
    /\ dTrace = <<>>
    /\ progress = 0
    /\ dResult = "none"
    /\ pages = <<>>
    /\ metadata = [m \in MsgIds |-> [err |-> TRUE, Headers |-> <<>>]]
    /\ hpc = "idle"
    /\ pageToken = 0
    /\ r = EmptyPage
    /\ msgIdx = 1
    /\ senderMap = <<>>
    /\ stats = <<>>
    /\ hErr = FALSE
    /\ listLog = <<>>
    /\ fetchLog = <<>>
    /\ prevStats = <<>>
    /\ runs = 1
    /\ tokFile = "missing"
    /\ mainpc = "idle"
    /\ authCode = ""
    /\ authErr = "nil"
    /\ wg = 0
    /\ wgWaiters = 0
    /\ listener = "none"
    /\ handlers = <<>>
    /\ tok = NilTok
    /\ retErr = "nil"
    /\ client = NoClient
    /\ listenerBinds = 0
    /\ authURLs = 0
    /\ exchangeCalls = 0
    /\ fileWrites = 0
    /\ panics = 0
    /\ lateWrites = 0
    /\ logLines = {}
    /\ eFrom = <<>>
    /\ eOut = <<>>
    /\ epc = "idle"
    /\ senderStats = <<>>
    /\ ppc = "idle"
    /\ pi = 1
    /\ response = <<>>
    /\ offered = <<>>
    /\ deleteCalls = <<>>

\* getSenderStats called on a message store; the other components are not
\* running
InitHarvest ==
    /\ ids = <<>>
    /\ dIdx = 1
    /\ dpc = "idle"
    /\ successCount = 0
    /\ deleteErrors = <<>>
    /\ dTrace = <<>>
    /\ progress = 0
    /\ dResult = "none"
    /\ pages \in {ps \in SeqUpTo(SeqUpTo(MsgIds, MaxPageLen), MaxPages) :
                    ps # <<>> /\ Len(Flatten(ps)) <= MaxMessages}
    /\ metadata \in [MsgIds -> MetadataResults]
    /\ hpc = "list"
    /\ pageToken = 0
    /\ r = EmptyPage
    /\ msgIdx = 1
    /\ senderMap = <<>>
    /\ stats = <<>>
    /\ hErr = FALSE
    /\ listLog = <<>>
    /\ fetchLog = <<>>
    /\ prevStats = <<>>
    /\ runs = 1
    /\ tokFile = "missing"
    /\ mainpc = "idle"
    /\ authCode = ""
    /\ authErr = "nil"
    /\ wg = 0
    /\ wgWaiters = 0
    /\ listener = "none"
    /\ handlers = <<>>
    /\ tok = NilTok
    /\ retErr = "nil"
    /\ client = NoClient
    /\ listenerBinds = 0
    /\ authURLs = 0
    /\ exchangeCalls = 0
    /\ fileWrites = 0
    /\ panics = 0
    /\ lateWrites = 0
    /\ logLines = {}
    /\ eFrom = <<>>
    /\ eOut = <<>>
    /\ epc = "idle"
    /\ senderStats = <<>>
    /\ ppc = "idle"
    /\ pi = 1
    /\ response = <<>>
    /\ offered = <<>>
    /\ deleteCalls = <<>>

\* getClient called with some content of token.json; the other components
\* are not running
InitAuth ==
    /\ ids = <<>>
    /\ dIdx = 1
    /\ dpc = "idle"
    /\ successCount = 0
    /\ deleteErrors = <<>>
    /\ dTrace = <<>>
    /\ progress = 0
    /\ dResult = "none"
    /\ pages = <<>>
    /\ metadata = [m \in MsgIds |-> [err |-> TRUE, Headers |-> <<>>]]
    /\ hpc = "idle"
    /\ pageToken = 0
    /\ r = EmptyPage
    /\ msgIdx = 1
    /\ senderMap = <<>>
    /\ stats = <<>>
    /\ hErr = FALSE
    /\ listLog = <<>>
    /\ fetchLog = <<>>
    /\ prevStats = <<>>
    /\ runs = 1
    /\ tokFile \in CacheContents
    /\ mainpc = "getClient"
    /\ authCode = ""
    /\ authErr = "nil"
    /\ wg = 0
    /\ wgWaiters = 0
    /\ listener = "none"
    /\ handlers = <<>>
    /\ tok = NilTok
    /\ retErr = "nil"
    /\ client = NoClient
    /\ listenerBinds = 0
    /\ authURLs = 0
    /\ exchangeCalls = 0
    /\ fileWrites = 0
    /\ panics = 0
    /\ lateWrites = 0
    /\ logLines = {}
    /\ eFrom = <<>>
    /\ eOut = <<>>
    /\ epc = "idle"
    /\ senderStats = <<>>
    /\ ppc = "idle"
    /\ pi = 1
    /\ response = <<>>
    /\ offered = <<>>
    /\ deleteCalls = <<>>

\* extractEmail called on a From value; the other components are not running
InitExtract ==
    /\ ids = <<>>
    /\ dIdx = 1
    /\ dpc = "idle"
    /\ successCount = 0
    /\ deleteErrors = <<>>
    /\ dTrace = <<>>
    /\ progress = 0
    /\ dResult = "none"
    /\ pages = <<>>
    /\ metadata = [m \in MsgIds |-> [err |-> TRUE, Headers |-> <<>>]]
    /\ hpc = "idle"
    /\ pageToken = 0
    /\ r = EmptyPage
    /\ msgIdx = 1
    /\ senderMap = <<>>
    /\ stats = <<>>
    /\ hErr = FALSE
    /\ listLog = <<>>
    /\ fetchLog = <<>>
    /\ prevStats = <<>>
    /\ runs = 1
    /\ tokFile = "missing"
    /\ mainpc = "idle"
    /\ authCode = ""
    /\ authErr = "nil"
    /\ wg = 0
    /\ wgWaiters = 0
    /\ listener = "none"
    /\ handlers = <<>>
    /\ tok = NilTok
    /\ retErr = "nil"
    /\ client = NoClient
    /\ listenerBinds = 0
    /\ authURLs = 0
    /\ exchangeCalls = 0
    /\ fileWrites = 0
    /\ panics = 0
    /\ lateWrites = 0
    /\ logLines = {}
    /\ eFrom \in SeqUpTo(Chars, MaxLen)
    /\ eOut = <<>>
    /\ epc = "call"
    /\ senderStats = <<>>
    /\ ppc = "idle"
    /\ pi = 1
    /\ response = <<>>
    /\ offered = <<>>
    /\ deleteCalls = <<>>

\* processEmails called on a result of getSenderStats; deleteEmails is
\* entered from its loop
InitProcess ==
    /\ ids = <<>>
    /\ dIdx = 1
    /\ dpc = "idle"
    /\ successCount = 0
    /\ deleteErrors = <<>>
    /\ dTrace = <<>>
    /\ progress = 0
    /\ dResult = "none"
    /\ pages = <<>>
    /\ metadata = [m \in MsgIds |-> [err |-> TRUE, Headers |-> <<>>]]
    /\ hpc = "idle"
    /\ pageToken = 0
    /\ r = EmptyPage
    /\ msgIdx = 1
    /\ senderMap = <<>>
    /\ stats = <<>>
    /\ hErr = FALSE
    /\ listLog = <<>>
    /\ fetchLog = <<>>
    /\ prevStats = <<>>
    /\ runs = 1
    /\ tokFile = "missing"
    /\ mainpc = "idle"
    /\ authCode = ""
    /\ authErr = "nil"
    /\ wg = 0
    /\ wgWaiters = 0
    /\ listener = "none"
    /\ handlers = <<>>
    /\ tok = NilTok
    /\ retErr = "nil"
    /\ client = NoClient
    /\ listenerBinds = 0
    /\ authURLs = 0
    /\ exchangeCalls = 0
    /\ fileWrites = 0
    /\ panics = 0
    /\ lateWrites = 0
    /\ logLines = {}
    /\ eFrom = <<>>
    /\ eOut = <<>>
    /\ epc = "idle"
    /\ senderStats \in HarvestResults
    /\ ppc = "sort"
    /\ pi = 1
    /\ response = <<>>
    /\ offered = <<>>
    /\ deleteCalls = <<>>

SpecDelete  == InitDelete /\ [][NextDelete]_vars
SpecHarvest == InitHarvest /\ [][NextHarvest]_vars
SpecAuth    == InitAuth /\ [][NextAuth]_vars
SpecRerun   == InitHarvest /\ [][NextRerun]_vars
SpecExtract == InitExtract /\ [][NextExtract]_vars
SpecProcess == InitProcess /\ [][NextProcess]_vars

\* =========================================================================
\* Properties
\* =========================================================================

\* ---- deleteEmails -------------------------------------------------------
\* K: trash requests that failed at the remote call
RemoteFailures == CountIf(dTrace, LAMBDA e : e.ev = "trash" /\ e.resp.err)
\* J: trash requests that returned success without the TRASH label
NotTrashed ==
    CountIf(dTrace, LAMBDA e : e.ev = "trash" /\ ~e.resp.err /\ "TRASH" \notin e.resp.LabelIds)

\* C1: when deleteEmails has returned for N IDs of which K failed remotely
\* and J came back without the TRASH label, successCount = N - K - J, the
\* number of recorded failures is K + J, and an error is returned iff
\* K + J > 0.
C1_DeletionOutcome ==
    dpc = "done" =>
        /\ successCount = Len(ids) - RemoteFailures - NotTrashed
        /\ Len(deleteErrors) = RemoteFailures + NotTrashed
        /\ (dResult = "error") <=> (RemoteFailures + NotTrashed > 0)

C1_Witness ==
    /\ dpc = "done"
    /\ RemoteFailures > 0
    /\ NotTrashed > 0
    /\ successCount > 0
    /\ dResult = "error"

\* C2: between any two consecutive trash requests of one deleteEmails call
\* a pacing delay occurs, whatever the outcome of the first of them.
C2_DelayBetweenAttempts ==
    \A i \in 1..(Len(dTrace) - 1) :
        dTrace[i].ev = "trash" => dTrace[i + 1].ev = "sleep"

\* ---- getSenderStats -----------------------------------------------------
RECURSIVE SumOver(_, _)
SumOver(S, f) ==
    IF S = {} THEN 0
    ELSE LET x == CHOOSE y \in S : TRUE
         IN  f[x].Count + SumOver(S \ {x}, f)

SumCounts(map) == SumOver(DOMAIN map, map)

FetchedOk == CountIf(fetchLog, LAMBDA f : f.ok)
FetchedWithFrom ==
    CountIf(fetchLog, LAMBDA f : f.ok /\ HasFrom(metadata[f.id].Headers))

\* C3 as stated: the sum of Count over all sender records equals the number
\* of messages whose metadata fetch succeeded.
C3_SumEqualsFetched ==
    /\ SumCounts(senderMap) = FetchedOk
    /\ (hpc = "done" /\ ~hErr) => SumCounts(stats) = FetchedOk

\* C3 amended: the sum of Count over all sender records equals the number
\* of messages whose metadata fetch succeeded and whose metadata carries a
\* header named From; failed fetches are excluded.
C3_SumEqualsFetchedWithFrom ==
    /\ SumCounts(senderMap) = FetchedWithFrom
    /\ (hpc = "done" /\ ~hErr) => SumCounts(stats) = FetchedWithFrom

C3_Witness ==
    /\ hpc = "done"
    /\ ~hErr
    /\ SumCounts(stats) >= 2
    /\ FetchedOk > FetchedWithFrom

RecordCountsOk(rec) == rec.Count = Len(rec.Ids) /\ rec.Count >= 1

\* The listing returns no message ID twice
ListingUnique == Distinct(Flatten(pages))

\* C4 as stated: every sender record, during the harvest and in its result,
\* has Count = length(Ids), Count >= 1 and pairwise distinct IDs.
C4_RecordsDistinct ==
    /\ \A e \in DOMAIN senderMap :
         RecordCountsOk(senderMap[e]) /\ Distinct(senderMap[e].Ids)
    /\ \A i \in 1..Len(stats) :
         RecordCountsOk(stats[i]) /\ Distinct(stats[i].Ids)

\* C4 amended: every sender record, during the harvest and in its result,
\* has Count = length(Ids) and Count >= 1; its IDs are pairwise distinct
\* whenever the listing returns each message ID at most once.
C4_RecordInvariant ==
    /\ \A e \in DOMAIN senderMap :
         /\ RecordCountsOk(senderMap[e])
         /\ ListingUnique => Distinct(senderMap[e].Ids)
    /\ \A i \in 1..Len(stats) :
         /\ RecordCountsOk(stats[i])
         /\ ListingUnique => Distinct(stats[i].Ids)

C4_Witness ==
    /\ hpc = "done"
    /\ ~hErr
    /\ ListingUnique
    /\ \E i \in 1..Len(stats) : stats[i].Count = 2

\* C9: a harvest that ends without error made exactly one listing request
\* per page, the first without token and each later one with the token of
\* the previous response, fetched the messages of exactly these pages in
\* order, and holds in its records exactly the fetched messages that carry
\* a From header; at no time were more requests made than there are pages.
C9_Pagination ==
    /\ Len(listLog) <= Len(pages)
    /\ \A i \in 1..Len(listLog) :
         listLog[i].token = IF i = 1 THEN 0 ELSE NextPageTokenOf(i - 1)
    /\ (hpc = "done" /\ ~hErr) =>
         /\ Len(listLog) = Len(pages)
         /\ [i \in 1..Len(fetchLog) |-> fetchLog[i].id] = Flatten(pages)
         /\ UNION {{stats[i].Ids[j] : j \in 1..Len(stats[i].Ids)} : i \in 1..Len(stats)}
              = {fetchLog[i].id : i \in {k \in 1..Len(fetchLog) :
                     fetchLog[k].ok /\ HasFrom(metadata[fetchLog[k].id].Headers)}}

\* the pages [A,B], [C], [] of the example
C9_Witness ==
    /\ hpc = "done"
    /\ ~hErr
    /\ Len(pages) = 3
    /\ Len(pages[1]) = 2
    /\ Len(pages[2]) = 1
    /\ pages[3] = <<>>
    /\ Len(listLog) = 3
    /\ Len(fetchLog) = 3

ListFailed == \E i \in 1..Len(listLog) : ~listLog[i].ok

\* C10: the harvest returns an error iff a listing request failed, and then
\* returns no records; without a listing failure it has fetched every
\* message of every page, failed metadata fetches included.
C10_HarvestFailure ==
    /\ hErr <=> ListFailed
    /\ hErr => (hpc = "done" /\ stats = <<>>)
    /\ (hpc = "done" /\ ~ListFailed) => Len(fetchLog) = Len(Flatten(pages))

C10_Witness ==
    /\ hpc = "done"
    /\ ~hErr
    /\ Len(fetchLog) >= 3
    /\ ~fetchLog[1].ok
    /\ fetchLog[2].ok
    /\ Len(stats) >= 1

\* ---- getClient / getTokenFromWeb ----------------------------------------
\* C5: the wait counter never goes below zero and neither authCode nor
\* authErr is written after the waiter has been released.
C5_SignaledOnce == wg >= 0 /\ lateWrites = 0

\* C6: once getTokenFromWeb has returned to getClient, on any path, the
\* listener is not running and no handler is running.
C6_ListenerShutDown ==
    mainpc \in {"returned", "done"} =>
        /\ listener \in {"none", "closed"}
        /\ (authURLs > 0 => listener = "closed")
        /\ \A i \in 1..Len(handlers) : handlers[i].pc = "done"

C6_Witness ==
    /\ mainpc = "returned"
    /\ retErr = "no code in callback"
    /\ listener = "closed"
    /\ listenerBinds = 1

\* C7: with a valid cached credential getClient makes no authorization URL,
\* no code exchange and no listener bind, and returns a client built from
\* the cached token.
C7_TokenReuse ==
    tokFile \in {"valid", "expired"} =>
        /\ listenerBinds = 0
        /\ authURLs = 0
        /\ exchangeCalls = 0
        /\ listener = "none"
        /\ mainpc \in {"getClient", "done"}
        /\ mainpc = "done" => (client.made /\ client.tok.kind = tokFile)

C7_Witness ==
    /\ tokFile = "valid"
    /\ mainpc = "done"
    /\ client.made
    /\ client.tok.kind = "valid"

\* C8: when getClient has returned and the cache still holds no usable
\* credential (missing, malformed, or a token that cannot authenticate),
\* the acquisition flow was entered and no client was built from an
\* unusable token.
C8_Reacquire ==
    (mainpc = "done" /\ tokFile \in {"missing", "malformed", "unusable"}) =>
        /\ authURLs > 0
        /\ ~(client.made /\ client.tok.kind = "unusable")

\* ---- extractEmail -------------------------------------------------------
\* The stated rule: with a '>' somewhere after the last '<', the text
\* strictly between the last '<' and the first '>' after it; otherwise the
\* value unchanged
StatedExtract(from) ==
    LET lts == {i \in 1..Len(from) : from[i] = "<"} IN
    IF lts = {} THEN from
    ELSE LET start == CHOOSE i \in lts : \A j \in lts : j <= i
             gts   == {j \in (start + 1)..Len(from) : from[j] = ">"}
         IN  IF gts = {} THEN from
             ELSE SubSeq(from, start + 1, (CHOOSE j \in gts : \A k \in gts : j <= k) - 1)

\* C11: for every From value extractEmail returns the text strictly between
\* the last '<' and the first '>' after it when there is one, and the raw
\* value otherwise.
C11_LastOpenFirstClose == epc = "done" => eOut = StatedExtract(eFrom)

\* ---- deleteEmails, continued --------------------------------------------
\* The IDs of the trash requests made so far, in the order they were made
TrashedIds ==
    LET reqs == SelectSeq(dTrace, LAMBDA e : e.ev = "trash")
    IN  [i \in 1..Len(reqs) |-> reqs[i].id]

\* C12: the trash requests made so far are, in order, a prefix of the ID
\* list: one request per ID, none for an ID outside the list, none repeated
\* or skipped after a failure; when deleteEmails has returned, the requests
\* are exactly the list, whatever the responses were.
C12_OneRequestPerId ==
    /\ Len(TrashedIds) <= Len(ids)
    /\ TrashedIds = SubSeq(ids, 1, Len(TrashedIds))
    /\ dpc = "done" => TrashedIds = ids

C12_Witness ==
    /\ dpc = "done"
    /\ Len(ids) = 3
    /\ dTrace[1].resp.err
    /\ Len(deleteErrors) = 2
    /\ successCount = 1

\* ---- getClient / getTokenFromWeb, continued -----------------------------
NoCodeCallbackHandled ==
    \E i \in 1..Len(handlers) : handlers[i].code = "" /\ handlers[i].pc = "done"

\* C13: when the listener has handled a callback without code, getClient
\* returns that error: no token exchange was made and no client was built.
C13_NoCodeFails ==
    (mainpc = "done" /\ NoCodeCallbackHandled) =>
        /\ retErr = "no code in callback"
        /\ exchangeCalls = 0
        /\ ~client.made
\* The token was obtained from the web but token.json could not be written
SaveFailed == mainpc = "done" /\ retErr = "nil" /\ tok.kind = "fresh" /\ fileWrites = 0

\* C14: when writing token.json fails, the failure is logged, getClient does
\* not fail, and the client is built from the token held in memory.
C14_SaveBestEffort ==
    SaveFailed =>
        /\ logLines \ {"HTTP server error", "Error getting authorisation code"} # {}
        /\ client.made
        /\ client.tok = tok
\* C15: token.json is written at most once, and only by getClient after a
\* code exchange that succeeded; nothing else changes it (not the reuse of
\* the cache, not a callback error, not a failed exchange).
C15_WriteOnlyAfterExchange ==
    [][ (tokFile' # tokFile \/ fileWrites' # fileWrites) =>
           /\ mainpc = "returned"
           /\ retErr = "nil"
           /\ tok.kind = "fresh"
           /\ exchangeCalls >= 1
           /\ fileWrites = 0
           /\ fileWrites' = 1
           /\ tokFile' = "fresh" ]_vars

C15_Witness ==
    /\ mainpc = "done"
    /\ fileWrites = 1
    /\ tokFile = "fresh"
    /\ client.made
\* ---- getSenderStats, continued ------------------------------------------
\* The message is counted: its metadata was fetched and has a From header
Counted(id) == ~metadata[id].err /\ HasFrom(metadata[id].Headers)

\* The sender of a counted message: the address of its first From header
SenderOfMsg(id) ==
    LET h == metadata[id].Headers
        first == CHOOSE i \in 1..Len(h) :
                    h[i].Name = "From" /\ \A j \in 1..(i - 1) : h[j].Name # "From"
    IN  extractEmail(h[first].Value)

\* The listed IDs of one sender, in listing order
ListedIdsOf(email) ==
    SelectSeq(Flatten(pages), LAMBDA id : Counted(id) /\ SenderOfMsg(id) = email)

RecordsOf(st) == {st[i] : i \in 1..Len(st)}

\* C16: in the result of a harvest every record holds the IDs of its sender
\* in listing (first-seen) order, and the result of a second harvest over
\* the same store has the same senders with the same counts and ID lists
\* as the first.
C16_RerunSameRecords ==
    (hpc = "done" /\ ~hErr) =>
        /\ \A i \in 1..Len(stats) :
             /\ stats[i].Ids = ListedIdsOf(stats[i].Email)
             /\ stats[i].Count = Len(ListedIdsOf(stats[i].Email))
        /\ \A i, j \in 1..Len(stats) : i # j => stats[i].Email # stats[j].Email
        /\ runs = 2 => RecordsOf(stats) = RecordsOf(prevStats)

C16_Witness ==
    /\ hpc = "done"
    /\ ~hErr
    /\ runs = 2
    /\ \E i \in 1..Len(stats) : stats[i].Ids = <<"m2", "m1">>
    /\ RecordsOf(prevStats) = RecordsOf(stats)
\* ---- processEmails -----------------------------------------------------
\* C17: the senders are offered in descending order of Count: no sender is
\* offered after one with a smaller Count.
C17_DescendingCount ==
    \A j, k \in 1..Len(offered) : j < k => offered[k].Count <= offered[j].Count

C17_Witness ==
    /\ Len(offered) >= 2
    /\ offered[1].Count = 2
    /\ offered[2].Count = 1
    /\ offered[1].Email = <<"b">>

YesResponses == { <<"y", "e", "s">>, <<"Y", "E", "s">> }
NoResponses == { <<"n", "o">> }
QuitResponses == { <<"Q", "u", "i", "t">> }
Prompted == offered' # offered

\* C18: deleteEmails is entered only by a prompt answered "yes" in any
\* letter case, with the Ids of the sender just offered, and for no sender
\* twice; "yes" always enters it; "no" moves to the next sender without
\* deleting; "quit" ends the loop, after which nothing is deleted or
\* offered; any other response keeps the same sender and deletes nothing.
C18_DeleteOnlyOnYes ==
    [][ /\ (deleteCalls' # deleteCalls) =>
             /\ Prompted
             /\ response' \in YesResponses
             /\ deleteCalls' = Append(deleteCalls,
                    [Email |-> senderStats[pi].Email, Ids |-> senderStats[pi].Ids])
             /\ ids' = senderStats[pi].Ids
             /\ dpc' = "loop"
             /\ \A c \in 1..Len(deleteCalls) : deleteCalls[c].Email # senderStats[pi].Email
        /\ (Prompted /\ response' \in YesResponses) => Len(deleteCalls') = Len(deleteCalls) + 1
        /\ (Prompted /\ response' \in NoResponses) =>
             (pi' = pi + 1 /\ ppc' = "loop" /\ deleteCalls' = deleteCalls /\ dTrace' = dTrace)
        /\ (Prompted /\ response' \in QuitResponses) =>
             (ppc' = "done" /\ deleteCalls' = deleteCalls /\ dTrace' = dTrace)
        /\ (Prompted /\ response' \notin (YesResponses \cup NoResponses \cup QuitResponses)) =>
             (pi' = pi /\ ppc' = "loop" /\ deleteCalls' = deleteCalls /\ dTrace' = dTrace)
        /\ (ppc = "loop" /\ dTrace' # dTrace) => Prompted
        /\ ppc = "done" => (deleteCalls' = deleteCalls /\ offered' = offered /\ dTrace' = dTrace)
      ]_vars

C18_Witness ==
    /\ ppc = "done"
    /\ response \in QuitResponses
    /\ Len(offered) = 3
    /\ offered[1] = offered[2]
    /\ Len(deleteCalls) = 1
    /\ deleteCalls[1].Email = offered[2].Email
    /\ Len(dTrace) > 0
\* ---- one sender per message ---------------------------------------------
\* How many times the ID stands in the ID lists of all records together
Occurrences(id, st) ==
    Cardinality({<<i, j>> \in (1..Len(st)) \X (1..(MaxPages * MaxPageLen + 1)) :
                    j <= Len(st[i].Ids) /\ st[i].Ids[j] = id})

MapAsSeq(map) ==
    LET order == CHOOSE o \in Orderings(DOMAIN map) : TRUE
    IN  [i \in 1..Len(order) |-> map[order[i]]]

\* C19: when the listing returns no message ID twice, every message ID
\* stands at most once in all ID lists together, during the harvest and in
\* its result: no ID is held by two senders, so the ID list handed to
\* deleteEmails for one sender holds no message of another sender.
C19_OneSenderPerMessage ==
    ListingUnique =>
        /\ \A id \in MsgIds : Occurrences(id, MapAsSeq(senderMap)) <= 1
        /\ \A id \in MsgIds : Occurrences(id, stats) <= 1
        /\ \A i, j \in 1..Len(stats) :
             i # j => (stats[i].Email # stats[j].Email
                       /\ IdSet(stats[i]) \cap IdSet(stats[j]) = {})

C19_Witness ==
    /\ hpc = "done"
    /\ ~hErr
    /\ ListingUnique
    /\ Len(stats) = 2
    /\ \E id \in MsgIds :
         /\ Len(metadata[id].Headers) = 2
         /\ metadata[id].Headers[1].Name = "From"
         /\ metadata[id].Headers[2].Name = "From"
         /\ Occurrences(id, stats) = 1

=============================================================================
